---- MODULE Spec2Model ----
(***************************************************************************)
(* Battle core of the Pokemon Combat Simulator (src/test.py): the Pokemon  *)
(* and Move objects, the type chart, and the PokemonGUI handlers           *)
(* select_pokemon, start_battle, use_move, ai_turn, execute_move,          *)
(* calculate_damage, end_battle and new_battle, driven by button presses   *)
(* and by the root.after(1500, self.ai_turn) timer callbacks.              *)
(*                                                                         *)
(* Numbers.  The code computes in floats; the model keeps them exact:      *)
(*   accuracy, random.random()       in percent   (0.9  -> 90)             *)
(*   random.uniform(0.85, 1.0)       in percent   (0.85 -> 85)             *)
(*   chart multipliers and STAB      in halves    (2.0  -> 4,  1.5 -> 3)    *)
(***************************************************************************)
EXTENDS Integers, Sequences, FiniteSets, TLC

\* Pending root.after callbacks the model keeps track of at once.
MaxTimers == 2

Max(a, b) == IF a >= b THEN a ELSE b

\* class PokemonType(Enum)
PokemonType == {"Fire", "Water", "Grass", "Electric", "Normal"}

\* class Move: __init__(name, power, move_type, accuracy = 1.0)
Move(name, power, move_type, accuracy) ==
    [name |-> name, power |-> power, type |-> move_type, accuracy |-> accuracy]

\* class Pokemon: __init__ sets max_hp and current_hp to hp
Pokemon(name, pokemon_type, hp, attack, defense, speed, moves) ==
    [name |-> name, type |-> pokemon_type, max_hp |-> hp, current_hp |-> hp,
     attack |-> attack, defense |-> defense, speed |-> speed, moves |-> moves]

\* Python's None for player_pokemon / enemy_pokemon
None == [name |-> "None"]

\* Pokemon.is_alive with >= in place of >
is_alive_at_zero(p) == p.current_hp >= 0

\* Pokemon.is_alive
is_alive(p) == p.current_hp > 0

\* Pokemon.take_damage without the floor at 0
take_damage_unclamped(p, damage) == [p EXCEPT !.current_hp = @ - damage]

\* Pokemon.take_damage
take_damage(p, damage) == [p EXCEPT !.current_hp = Max(0, @ - damage)]

\* TypeEffectiveness.CHART without the (Normal, Electric) entry
CHART_without_normal_electric ==
    ("Fire" :> ("Grass" :> 4 @@ "Water" :> 1 @@ "Fire" :> 1 @@ "Electric" :> 2 @@ "Normal" :> 2))
    @@ ("Water" :> ("Fire" :> 4 @@ "Grass" :> 1 @@ "Water" :> 1 @@ "Electric" :> 2 @@ "Normal" :> 2))
    @@ ("Grass" :> ("Water" :> 4 @@ "Fire" :> 1 @@ "Grass" :> 1 @@ "Electric" :> 2 @@ "Normal" :> 2))
    @@ ("Electric" :> ("Water" :> 4 @@ "Grass" :> 1 @@ "Fire" :> 2 @@ "Electric" :> 1 @@ "Normal" :> 2))
    @@ ("Normal" :> ("Fire" :> 2 @@ "Water" :> 2 @@ "Grass" :> 2 @@ "Normal" :> 2))

\* TypeEffectiveness.CHART, the dict of dicts entry by entry, multipliers in
\* halves (2.0 -> 4, 1.0 -> 2, 0.5 -> 1)
CHART ==
    ("Fire" :> ("Grass" :> 4 @@ "Water" :> 1 @@ "Fire" :> 1 @@ "Electric" :> 2 @@ "Normal" :> 2))
    @@ ("Water" :> ("Fire" :> 4 @@ "Grass" :> 1 @@ "Water" :> 1 @@ "Electric" :> 2 @@ "Normal" :> 2))
    @@ ("Grass" :> ("Water" :> 4 @@ "Fire" :> 1 @@ "Grass" :> 1 @@ "Electric" :> 2 @@ "Normal" :> 2))
    @@ ("Electric" :> ("Water" :> 4 @@ "Grass" :> 1 @@ "Fire" :> 2 @@ "Electric" :> 1 @@ "Normal" :> 2))
    @@ ("Normal" :> ("Fire" :> 2 @@ "Water" :> 2 @@ "Grass" :> 2 @@ "Electric" :> 2 @@ "Normal" :> 2))

\* TypeEffectiveness.get_multiplier
get_multiplier(attacking_type, defending_type) == CHART[attacking_type][defending_type]

\* PokemonGUI._create_pokemon_roster
moves_fire ==
    << Move("Ember", 40, "Fire", 100), Move("Flamethrower", 90, "Fire", 90),
       Move("Tackle", 40, "Normal", 100), Move("Quick Attack", 30, "Normal", 100) >>
moves_water ==
    << Move("Water Gun", 40, "Water", 100), Move("Hydro Pump", 110, "Water", 80),
       Move("Tackle", 40, "Normal", 100), Move("Bite", 60, "Normal", 100) >>
moves_grass ==
    << Move("Vine Whip", 45, "Grass", 100), Move("Solar Beam", 120, "Grass", 85),
       Move("Tackle", 40, "Normal", 100), Move("Sleep Powder", 0, "Grass", 75) >>
moves_electric ==
    << Move("Thunder Shock", 40, "Electric", 100), Move("Thunderbolt", 90, "Electric", 90),
       Move("Quick Attack", 30, "Normal", 100), Move("Thunder Wave", 0, "Electric", 90) >>
moves_normal ==
    << Move("Tackle", 40, "Normal", 100), Move("Hyper Beam", 150, "Normal", 90),
       Move("Quick Attack", 30, "Normal", 100), Move("Body Slam", 85, "Normal", 85) >>

pokemon_roster ==
    << Pokemon("Charmander", "Fire", 100, 85, 70, 90, moves_fire),
       Pokemon("Squirtle", "Water", 110, 75, 85, 70, moves_water),
       Pokemon("Bulbasaur", "Grass", 105, 80, 80, 75, moves_grass),
       Pokemon("Pikachu", "Electric", 90, 90, 60, 110, moves_electric),
       Pokemon("Eevee", "Normal", 95, 75, 75, 85, moves_normal) >>

\* The values random.random() is sampled at (percent): a draw every move
\* passes, and a draw every move of accuracy below 1.0 fails.
Rolls == {0, 95}

\* The value random.uniform(0.85, 1.0) is sampled at (percent): the top of its
\* range, so that every move has one damage value per defender.
RandomFactors == {100}


VARIABLES
    player_pokemon,    \* self.player_pokemon: None or a Pokemon
    enemy_pokemon,     \* self.enemy_pokemon: None or a Pokemon
    battle_active,     \* self.battle_active
    player_turn,       \* self.player_turn
    timers,            \* number of root.after(1500, self.ai_turn) callbacks not yet fired
    start_battle_btn,  \* state of self.start_battle_btn
    pokemon_buttons,   \* state of the buttons in self.pokemon_buttons
    move_buttons,      \* state of the buttons in self.move_buttons
    move_commands,     \* the moves the move buttons' commands are bound to
    event,             \* what the last handler call did (its log lines and message box)
    last_actor         \* the side that executed the last move of the current battle

vars == << player_pokemon, enemy_pokemon, battle_active, player_turn, timers,
           start_battle_btn, pokemon_buttons, move_buttons, move_commands,
           event, last_actor >>

NoMove == Move("None", 0, "Normal", 0)

\* The record of one handler call: the handler, whether it got past its early
\* return, the move it was given or selected, whether the accuracy draw was
\* within the move's accuracy, the line execute_move logged and the message
\* box end_battle showed.
Event(op, ran, move, roll, log, box) ==
    [op |-> op, ran |-> ran, move |-> move, roll_passed |-> ~(roll > move.accuracy),
     log |-> log, box |-> box]

Quiet(op) == Event(op, FALSE, NoMove, 0, "none", "none")

\* PokemonGUI.__init__
Init ==
    /\ player_pokemon = None
    /\ enemy_pokemon = None
    /\ battle_active = FALSE
    /\ player_turn = TRUE
    /\ timers = 0
    /\ start_battle_btn = "disabled"
    /\ pokemon_buttons = "normal"
    /\ move_buttons = "disabled"
    /\ move_commands = << >>
    /\ event = Quiet("init")
    /\ last_actor = "none"

\* calculate_damage: stab = 1.5 if move.type == attacker.type else 1.0, in halves
stab(attacker, move) == IF move.type = attacker.type THEN 3 ELSE 2

\* calculate_damage with (2 * 50 + 20) / 250 as the level factor of base_damage
final_damage_level_factor_120(attacker, defender, move, random_factor) ==
    ((12 * attacker.attack * move.power + 50 * defender.defense)
        * get_multiplier(move.type, defender.type) * random_factor * stab(attacker, move))
      \div (25 * defender.defense * 2 * 100 * 2)

\* calculate_damage: int(base_damage * type_multiplier * random_factor * stab) with
\*   base_damage = ((2 * 50 + 10) / 250) * (attack / defense) * power + 2
\*               = (11 * attack * power + 50 * defense) / (25 * defense)
\* and the three factors in halves, percent and halves.
final_damage(attacker, defender, move, random_factor) ==
    ((11 * attacker.attack * move.power + 50 * defender.defense)
        * get_multiplier(move.type, defender.type) * random_factor * stab(attacker, move))
      \div (25 * defender.defense * 2 * 100 * 2)

\* calculate_damage without the power == 0 return
calculate_damage_no_power_check(attacker, defender, move, roll, random_factor) ==
    IF roll > move.accuracy THEN 0
    ELSE Max(1, final_damage(attacker, defender, move, random_factor))

\* calculate_damage without the accuracy return
calculate_damage_no_accuracy_check(attacker, defender, move, roll, random_factor) ==
    IF move.power = 0 THEN 0
    ELSE Max(1, final_damage(attacker, defender, move, random_factor))

\* PokemonGUI.calculate_damage; roll is random.random(), random_factor is
\* random.uniform(0.85, 1.0)
calculate_damage(attacker, defender, move, roll, random_factor) ==
    IF move.power = 0 THEN 0
    ELSE IF roll > move.accuracy THEN 0
    ELSE Max(1, final_damage(attacker, defender, move, random_factor))

\* PokemonGUI.execute_move: the defender after the move
execute_move(attacker, defender, move, roll, random_factor) ==
    LET damage == calculate_damage(attacker, defender, move, roll, random_factor)
    IN  IF damage = 0 THEN defender ELSE take_damage(defender, damage)

\* PokemonGUI.execute_move: the line it logs after "<attacker> uses <move>!"
execute_move_log(attacker, defender, move, roll, random_factor) ==
    LET damage == calculate_damage(attacker, defender, move, roll, random_factor)
    IN  IF damage = 0 /\ move.power > 0 THEN "missed"
        ELSE IF damage = 0 THEN "no effect"
        ELSE "takes damage"

\* PokemonGUI.ai_turn: the loop that collects best_moves
RECURSIVE best_moves_loop(_, _, _, _, _)
best_moves_loop(moves, i, target_type, best_effectiveness, best_moves) ==
    IF i > Len(moves) THEN best_moves
    ELSE LET move == moves[i]
             effectiveness == get_multiplier(move.type, target_type)
         IN  IF move.power > 0
             THEN IF effectiveness > best_effectiveness
                  THEN best_moves_loop(moves, i + 1, target_type, effectiveness, << move >>)
                  ELSE IF effectiveness = best_effectiveness
                  THEN best_moves_loop(moves, i + 1, target_type, best_effectiveness,
                                       Append(best_moves, move))
                  ELSE best_moves_loop(moves, i + 1, target_type, best_effectiveness, best_moves)
             ELSE best_moves_loop(moves, i + 1, target_type, best_effectiveness, best_moves)

Range(seq) == {seq[i] : i \in 1..Len(seq)}

\* ai_turn's selection as random.choice(self.enemy_pokemon.moves)
ai_choices_whole_list(moves, target_type) == Range(moves)

\* ai_turn's selection without the effectiveness comparison: any damaging move
ai_choices_any_damaging(moves, target_type) ==
    LET damaging == SelectSeq(moves, LAMBDA m : m.power > 0)
    IN  IF damaging # << >> THEN Range(damaging) ELSE Range(moves)

\* PokemonGUI.ai_turn: the moves random.choice can return as selected_move
ai_choices(moves, target_type) ==
    LET looped == best_moves_loop(moves, 1, target_type, 0, << >>)
        best_moves == IF looped = << >>
                      THEN SelectSeq(moves, LAMBDA m : m.power > 0)
                      ELSE looped
    IN  IF best_moves # << >> THEN Range(best_moves) ELSE Range(moves)

\* start_battle: self.player_turn = a strict comparison instead of >=
first_turn_strict(player, enemy) == player.speed > enemy.speed

\* start_battle: self.player_turn = self.player_pokemon.speed >= self.enemy_pokemon.speed
first_turn(player, enemy) == player.speed >= enemy.speed

\* use_move without its early return
use_move_never_returns == FALSE

\* use_move: if not self.battle_active or not self.player_turn: return
use_move_returns == ~battle_active \/ ~player_turn

\* ai_turn's early return without the player_turn test
ai_turn_returns_active_only == ~battle_active

\* ai_turn: if not self.battle_active or self.player_turn: return
ai_turn_returns == ~battle_active \/ player_turn

\* Pokemon.get_hp_percentage: (self.current_hp / self.max_hp) * 100 raises
\* ZeroDivisionError when max_hp is 0
get_hp_percentage_raises(p) == p.max_hp = 0

\* PokemonGUI.update_hp_display: get_hp_percentage of each combatant that is set
update_hp_display_raises(player, enemy) ==
    \/ player # None /\ get_hp_percentage_raises(player)
    \/ enemy # None /\ get_hp_percentage_raises(enemy)

\* calculate_damage: past the power and accuracy returns, attacker.attack /
\* defender.defense raises ZeroDivisionError when the defense is 0
calculate_damage_raises(defender, move, roll) ==
    /\ move.power # 0
    /\ ~(roll > move.accuracy)
    /\ defender.defense = 0

\* PokemonGUI.select_pokemon.  When update_hp_display raises, the handler stops
\* with the new player combatant stored and the start button as it was.
select_pokemon(pokemon) ==
    LET player == Pokemon(pokemon.name, pokemon.type, pokemon.max_hp, pokemon.attack,
                          pokemon.defense, pokemon.speed, pokemon.moves)
    IN  /\ player_pokemon' = player
        /\ IF update_hp_display_raises(player, enemy_pokemon)
           THEN /\ event' = Event("select_pokemon", FALSE, NoMove, 0, "ZeroDivisionError", "none")
                /\ UNCHANGED start_battle_btn
           ELSE /\ start_battle_btn' = "normal"
                /\ event' = Quiet("select_pokemon")
        /\ UNCHANGED << enemy_pokemon, battle_active, player_turn, timers, pokemon_buttons,
                        move_buttons, move_commands, last_actor >>

\* PokemonGUI.start_battle; enemy_template is random.choice(self.pokemon_roster).
\* When update_hp_display raises, the handler stops with the enemy stored and
\* the battle active, before it has touched a button or scheduled ai_turn.
start_battle(enemy_template) ==
    IF player_pokemon = None
    THEN /\ event' = Quiet("start_battle")
         /\ UNCHANGED << player_pokemon, enemy_pokemon, battle_active, player_turn, timers,
                         start_battle_btn, pokemon_buttons, move_buttons, move_commands,
                         last_actor >>
    ELSE LET enemy == Pokemon(enemy_template.name, enemy_template.type,
                              enemy_template.max_hp, enemy_template.attack,
                              enemy_template.defense, enemy_template.speed,
                              enemy_template.moves)
             first == first_turn(player_pokemon, enemy)
         IN  IF update_hp_display_raises(player_pokemon, enemy)
             THEN
             /\ enemy_pokemon' = enemy
             /\ battle_active' = TRUE
             /\ player_turn' = first
             /\ event' = Event("start_battle", FALSE, NoMove, 0, "ZeroDivisionError", "none")
             /\ UNCHANGED << player_pokemon, timers, start_battle_btn, pokemon_buttons,
                             move_buttons, move_commands, last_actor >>
             ELSE
             /\ enemy_pokemon' = enemy
             /\ battle_active' = TRUE
             /\ player_turn' = first
             \* update_move_buttons
             /\ IF first
                THEN move_buttons' = "normal" /\ move_commands' = player_pokemon.moves
                ELSE move_buttons' = "disabled" /\ move_commands' = move_commands
             /\ start_battle_btn' = "disabled"
             /\ pokemon_buttons' = "disabled"
             \* self.root.after(1500, self.ai_turn)
             /\ IF first THEN timers' = timers
                ELSE timers < MaxTimers /\ timers' = timers + 1
             /\ event' = Event("start_battle", TRUE, NoMove, 0, "none", "none")
             /\ last_actor' = "none"
             /\ UNCHANGED player_pokemon

\* PokemonGUI.use_move; end_battle(player_won=True) when the enemy is not alive.
\* With a combatant that is None the handler stops on Python's AttributeError,
\* after it has disabled the move buttons; it stops on ZeroDivisionError in
\* calculate_damage before the enemy is touched, and in the update_hp_display
\* that ends execute_move after the enemy has taken the damage.
use_move(move, roll, random_factor) ==
    IF use_move_returns
    THEN /\ event' = Quiet("use_move")
         /\ UNCHANGED << player_pokemon, enemy_pokemon, battle_active, player_turn, timers,
                         start_battle_btn, pokemon_buttons, move_buttons, move_commands,
                         last_actor >>
    ELSE IF player_pokemon = None \/ enemy_pokemon = None
    THEN /\ move_buttons' = "disabled"
         /\ event' = Event("use_move", FALSE, NoMove, 0, "AttributeError", "none")
         /\ UNCHANGED << player_pokemon, enemy_pokemon, battle_active, player_turn, timers,
                         start_battle_btn, pokemon_buttons, move_commands, last_actor >>
    ELSE IF calculate_damage_raises(enemy_pokemon, move, roll)
    THEN /\ move_buttons' = "disabled"
         /\ event' = Event("use_move", FALSE, move, roll, "ZeroDivisionError", "none")
         /\ UNCHANGED << player_pokemon, enemy_pokemon, battle_active, player_turn, timers,
                         start_battle_btn, pokemon_buttons, move_commands, last_actor >>
    ELSE LET enemy == execute_move(player_pokemon, enemy_pokemon, move, roll, random_factor)
             log == execute_move_log(player_pokemon, enemy_pokemon, move, roll, random_factor)
         IN  IF log = "takes damage" /\ update_hp_display_raises(player_pokemon, enemy)
             THEN
             /\ move_buttons' = "disabled"
             /\ enemy_pokemon' = enemy
             /\ event' = Event("use_move", FALSE, move, roll, "ZeroDivisionError", "none")
             /\ UNCHANGED << player_pokemon, battle_active, player_turn, timers,
                             start_battle_btn, pokemon_buttons, move_commands, last_actor >>
             ELSE
             /\ move_buttons' = "disabled"
             /\ enemy_pokemon' = enemy
             /\ last_actor' = "player"
             /\ IF ~is_alive(enemy)
                THEN \* end_battle(player_won=True)
                     /\ battle_active' = FALSE
                     /\ start_battle_btn' = "normal"
                     /\ event' = Event("use_move", TRUE, move, roll, log, "Victory!")
                     /\ UNCHANGED << player_turn, timers >>
                ELSE /\ player_turn' = FALSE
                     \* self.root.after(1500, self.ai_turn)
                     /\ timers < MaxTimers
                     /\ timers' = timers + 1
                     /\ event' = Event("use_move", TRUE, move, roll, log, "none")
                     /\ UNCHANGED << battle_active, start_battle_btn >>
             /\ UNCHANGED << player_pokemon, pokemon_buttons, move_commands >>

\* PokemonGUI.ai_turn, as the body of a timer callback; end_battle(player_won=False)
\* when the player is not alive.  With a combatant that is None the handler
\* stops on Python's AttributeError before it has changed anything; it stops on
\* ZeroDivisionError in calculate_damage before the player is touched, and in
\* the update_hp_display that ends execute_move after the player has taken the
\* damage.
ai_turn(roll, random_factor) ==
    IF ai_turn_returns
    THEN /\ event' = Quiet("ai_turn")
         /\ UNCHANGED << player_pokemon, enemy_pokemon, battle_active, player_turn,
                         start_battle_btn, pokemon_buttons, move_buttons, move_commands,
                         last_actor >>
    ELSE IF player_pokemon = None \/ enemy_pokemon = None
    THEN /\ event' = Event("ai_turn", FALSE, NoMove, 0, "AttributeError", "none")
         /\ UNCHANGED << player_pokemon, enemy_pokemon, battle_active, player_turn,
                         start_battle_btn, pokemon_buttons, move_buttons, move_commands,
                         last_actor >>
    ELSE \E selected_move \in ai_choices(enemy_pokemon.moves, player_pokemon.type) :
           LET player == execute_move(enemy_pokemon, player_pokemon, selected_move, roll,
                                      random_factor)
               log == execute_move_log(enemy_pokemon, player_pokemon, selected_move, roll,
                                       random_factor)
           IN  IF calculate_damage_raises(player_pokemon, selected_move, roll)
               THEN
               /\ event' = Event("ai_turn", FALSE, selected_move, roll, "ZeroDivisionError",
                                 "none")
               /\ UNCHANGED << player_pokemon, enemy_pokemon, battle_active, player_turn,
                               start_battle_btn, pokemon_buttons, move_buttons,
                               move_commands, last_actor >>
               ELSE IF log = "takes damage" /\ update_hp_display_raises(player, enemy_pokemon)
               THEN
               /\ player_pokemon' = player
               /\ event' = Event("ai_turn", FALSE, selected_move, roll, "ZeroDivisionError",
                                 "none")
               /\ UNCHANGED << enemy_pokemon, battle_active, player_turn, start_battle_btn,
                               pokemon_buttons, move_buttons, move_commands, last_actor >>
               ELSE
               /\ player_pokemon' = player
               /\ last_actor' = "enemy"
               /\ IF ~is_alive(player)
                  THEN \* end_battle(player_won=False)
                       /\ battle_active' = FALSE
                       /\ move_buttons' = "disabled"
                       /\ start_battle_btn' = "normal"
                       /\ event' = Event("ai_turn", TRUE, selected_move, roll, log, "Defeat!")
                       /\ UNCHANGED << player_turn, move_commands >>
                  ELSE /\ player_turn' = TRUE
                       \* update_move_buttons
                       /\ move_buttons' = "normal"
                       /\ move_commands' = player.moves
                       /\ event' = Event("ai_turn", TRUE, selected_move, roll, log, "none")
                       /\ UNCHANGED << battle_active, start_battle_btn >>
               /\ UNCHANGED << enemy_pokemon, pokemon_buttons >>

\* PokemonGUI.new_battle
new_battle ==
    /\ player_pokemon' = None
    /\ enemy_pokemon' = None
    /\ battle_active' = FALSE
    /\ player_turn' = TRUE
    /\ pokemon_buttons' = "normal"
    /\ start_battle_btn' = "disabled"
    /\ move_buttons' = "disabled"
    /\ event' = Quiet("new_battle")
    /\ last_actor' = "none"
    /\ UNCHANGED << timers, move_commands >>

\* A press of one of self.pokemon_buttons
PressPokemon ==
    /\ pokemon_buttons = "normal"
    /\ \E i \in 1..Len(pokemon_roster) : select_pokemon(pokemon_roster[i])

\* A press of self.start_battle_btn ("Start Battle!" or "Battle Again!")
PressStartBattle ==
    /\ start_battle_btn = "normal"
    /\ \E i \in 1..Len(pokemon_roster) : start_battle(pokemon_roster[i])

\* A press of one of self.move_buttons
PressMove ==
    /\ move_buttons = "normal"
    /\ \E i \in 1..Len(move_commands), roll \in Rolls, random_factor \in RandomFactors :
         use_move(move_commands[i], roll, random_factor)

\* A press of self.new_battle_btn
PressNewBattle == new_battle

\* A root.after(1500, self.ai_turn) callback fires
TimerFires ==
    /\ timers > 0
    /\ timers' = timers - 1
    /\ \E roll \in Rolls, random_factor \in RandomFactors : ai_turn(roll, random_factor)

Next ==
    \/ PressPokemon
    \/ PressStartBattle
    \/ PressMove
    \/ PressNewBattle
    \/ TimerFires

Spec == Init /\ [][Next]_vars

\* A call of use_move that does not wait for an enabled move button: the
\* command bound to a move button is invoked whatever the button's state.
CallUseMove ==
    \E i \in 1..Len(move_commands), roll \in Rolls, random_factor \in RandomFactors :
        use_move(move_commands[i], roll, random_factor)

NextCalls ==
    \/ PressPokemon
    \/ PressStartBattle
    \/ PressNewBattle
    \/ TimerFires
    \/ CallUseMove

\* The handlers under button presses and timer callbacks, with use_move under
\* direct calls of the move buttons' commands (a press is the call made while
\* the button is enabled).
SpecCalls == Init /\ [][NextCalls]_vars

\* The roster entries the specification of arbitrary use_move calls selects
\* and draws enemies from.
CallerRoster == {1, 4}

\* A press of a pokemon button, among the entries of CallerRoster
CallerSelects ==
    /\ pokemon_buttons = "normal"
    /\ \E i \in CallerRoster : select_pokemon(pokemon_roster[i])

\* A press of self.start_battle_btn, random.choice among the entries of CallerRoster
CallerStartsBattle ==
    /\ start_battle_btn = "normal"
    /\ \E i \in CallerRoster : start_battle(pokemon_roster[i])

\* A call of use_move by any caller, at any time, with any move of the entries
\* of CallerRoster: use_move takes the move as its argument and never looks it
\* up in self.player_pokemon.moves.
CallAnyMove ==
    \E i \in CallerRoster, j \in 1..4, roll \in Rolls, random_factor \in RandomFactors :
        /\ j <= Len(pokemon_roster[i].moves)
        /\ use_move(pokemon_roster[i].moves[j], roll, random_factor)

NextCaller ==
    \/ CallerSelects
    \/ CallerStartsBattle
    \/ CallAnyMove
    \/ TimerFires

\* use_move as an entry point any caller may use, with any move.
SpecCaller == Init /\ [][NextCaller]_vars

\* A move list without a move of power > 0
moves_status == << Move("Sleep Powder", 0, "Grass", 75), Move("Thunder Wave", 0, "Electric", 90) >>

\* Pokemon(...) as _create_pokemon_roster calls it, over other inputs: the
\* constructor stores whatever it is given, a max health of 0 and a defense of
\* 0 included.
custom_roster ==
    << Pokemon("Attacker", "Fire", 200, 85, 70, 80, moves_fire),
       Pokemon("GrassTarget", "Grass", 200, 85, 70, 90, moves_grass),
       Pokemon("WaterTarget", "Water", 200, 85, 70, 70, moves_status),
       Pokemon("NoHealth", "Fire", 0, 85, 70, 80, moves_fire),
       Pokemon("NoDefense", "Grass", 200, 85, 0, 80, moves_grass) >>

\* A press of a pokemon button over the custom roster
SelectsCustom ==
    /\ pokemon_buttons = "normal"
    /\ \E i \in 1..Len(custom_roster) : select_pokemon(custom_roster[i])

\* A press of self.start_battle_btn over the custom roster
StartsCustom ==
    /\ start_battle_btn = "normal"
    /\ \E i \in 1..Len(custom_roster) : start_battle(custom_roster[i])

NextCustom ==
    \/ SelectsCustom
    \/ StartsCustom
    \/ PressMove
    \/ TimerFires

\* The game over a roster of combatants built from arbitrary constructor inputs.
SpecCustom == Init /\ [][NextCustom]_vars

\* A press of self.start_battle_btn while it reads "Start Battle!": no enemy has
\* been drawn since __init__ or the last new_battle.
PressStartFirstBattle ==
    /\ start_battle_btn = "normal"
    /\ enemy_pokemon = None
    /\ \E i \in 1..Len(pokemon_roster) : start_battle(pokemon_roster[i])

NextLive ==
    \/ PressPokemon
    \/ PressStartFirstBattle
    \/ PressMove
    \/ PressNewBattle
    \/ TimerFires

\* The game of first battles (every pairing of the roster, from full health,
\* new_battle at any time) with a player who keeps choosing a move while the
\* move buttons are enabled, a Tk main loop that runs every scheduled ai_turn
\* callback, and accuracy draws of the enemy that do not fail forever.
SpecLive ==
    /\ Init
    /\ [][NextLive]_vars
    /\ WF_vars(PressMove)
    /\ WF_vars(TimerFires)
    /\ SF_vars(TimerFires /\ event'.ran /\ event'.roll_passed)

(***************************************************************************)
(* Properties                                                              *)
(***************************************************************************)

\* The step just taken executed a move (use_move or ai_turn past its early
\* return and past execute_move).
MoveExecuted(e) == e.op \in {"use_move", "ai_turn"} /\ e.ran

\* Both combatants exist (neither is None).
BothPresent == player_pokemon # None /\ enemy_pokemon # None

\* C1: for every combatant present, player and enemy, 0 <= current_hp <= max_hp
\* in every reachable state.
C1_HealthInRange ==
    \A p \in {player_pokemon, enemy_pokemon} :
        p # None => (0 <= p.current_hp /\ p.current_hp <= p.max_hp)

\* C1 witness: a hit whose damage exceeded the defender's remaining health has
\* just been resolved, and the defender stands at 0.
C1_Witness ==
    /\ MoveExecuted(event)
    /\ event.op = "use_move"
    /\ event.log = "takes damage"
    /\ enemy_pokemon.current_hp = 0
    /\ \A random_factor \in RandomFactors :
         final_damage(player_pokemon, enemy_pokemon, event.move, random_factor)
           > enemy_pokemon.max_hp

\* C2, as claimed: every successful hit by a move with power > 0 lowers the
\* defender's current health by at least 1 and leaves it at 0 or above.
C2_HitLowersHealth ==
    [][(MoveExecuted(event') /\ event'.move.power > 0 /\ event'.roll_passed) =>
         IF event'.op = "use_move"
         THEN /\ enemy_pokemon'.current_hp <= enemy_pokemon.current_hp - 1
              /\ enemy_pokemon'.current_hp >= 0
         ELSE /\ player_pokemon'.current_hp <= player_pokemon.current_hp - 1
              /\ player_pokemon'.current_hp >= 0]_vars

\* C3: a move with power 0 that is executed changes neither combatant, whether
\* the accuracy draw is within the move's accuracy or not.
C3_ZeroPowerNoChange ==
    [][(MoveExecuted(event') /\ event'.move.power = 0) =>
         (player_pokemon' = player_pokemon /\ enemy_pokemon' = enemy_pokemon)]_vars

\* C3 witness: a zero-power move has been executed with an accuracy draw above
\* its accuracy, and logged "had no effect".
C3_Witness ==
    /\ MoveExecuted(event)
    /\ event.move.power = 0
    /\ ~event.roll_passed
    /\ event.log = "no effect"

\* C4: a move with power > 0 whose accuracy draw is above its accuracy changes
\* neither combatant.
C4_MissNoChange ==
    [][(MoveExecuted(event') /\ event'.move.power > 0 /\ ~event'.roll_passed) =>
         (player_pokemon' = player_pokemon /\ enemy_pokemon' = enemy_pokemon)]_vars

\* C4 witness: a damaging move has just missed a defender that had already
\* lost health.
C4_Witness ==
    /\ MoveExecuted(event)
    /\ event.op = "use_move"
    /\ event.move.power > 0
    /\ ~event.roll_passed
    /\ event.log = "missed"
    /\ enemy_pokemon.current_hp < enemy_pokemon.max_hp

\* C5, as claimed: when an executed move leaves its defender at 0 health the
\* battle is ended in that step, and the side the message box declares the
\* winner (the mover's side) has a combatant with current health > 0.
C5_EndsWithStandingWinner ==
    /\ (MoveExecuted(event) /\ event.op = "use_move" /\ enemy_pokemon.current_hp = 0) =>
         (~battle_active /\ event.box = "Victory!" /\ player_pokemon.current_hp > 0)
    /\ (MoveExecuted(event) /\ event.op = "ai_turn" /\ player_pokemon.current_hp = 0) =>
         (~battle_active /\ event.box = "Defeat!" /\ enemy_pokemon.current_hp > 0)

\* C6: while no battle is active, a use_move call or an ai_turn callback changes
\* neither combatant, nor the turn owner, nor the active/ended status.
C6_EndedIsFinal ==
    [][(~battle_active /\ event'.op \in {"use_move", "ai_turn"}) =>
         /\ player_pokemon' = player_pokemon
         /\ enemy_pokemon' = enemy_pokemon
         /\ player_turn' = player_turn
         /\ battle_active' = battle_active]_vars

\* C6 witness: use_move has been called after end_battle (the enemy is down,
\* "Battle Again!" is offered) and returned early.
C6_Witness ==
    /\ event = Quiet("use_move")
    /\ ~battle_active
    /\ BothPresent
    /\ enemy_pokemon.current_hp = 0
    /\ start_battle_btn = "normal"

\* C7, as claimed: whenever start_battle makes a battle active, both combatants
\* are at full health.
C7_FreshCombatants ==
    (event.op = "start_battle" /\ event.ran) =>
      /\ player_pokemon.current_hp = player_pokemon.max_hp
      /\ enemy_pokemon.current_hp = enemy_pokemon.max_hp

\* C8, as claimed: the player combatant and the enemy combatant are never both
\* at 0 health.
C8_NoSimultaneousZero ==
    ~(BothPresent /\ player_pokemon.current_hp = 0 /\ enemy_pokemon.current_hp = 0)

\* C9: every executed move is made by the side that did not make the previous
\* move of the battle, and by the turn owner; when the battle goes on, the turn
\* passes to the other side.
C9_StrictAlternation ==
    [][MoveExecuted(event') =>
         /\ last_actor # last_actor'
         /\ last_actor' = (IF event'.op = "use_move" THEN "player" ELSE "enemy")
         /\ player_turn = (event'.op = "use_move")
         /\ battle_active' => (player_turn' = (event'.op = "ai_turn"))]_vars

\* C9 witness: the enemy has moved on a timer callback while another callback
\* is still pending, in a battle that goes on.
C9_Witness ==
    /\ MoveExecuted(event)
    /\ event.op = "ai_turn"
    /\ timers > 0
    /\ battle_active
    /\ player_turn

\* C10: start_battle gives the first turn to the enemy exactly when the enemy's
\* speed is strictly greater (the player on a tie), whatever the random draws,
\* and the first move of a battle is made by that side.
C10_FirstMoverBySpeed ==
    [][/\ (event'.op = "start_battle" /\ event'.ran) =>
            (player_turn' = ~(enemy_pokemon'.speed > player_pokemon'.speed))
       /\ (MoveExecuted(event') /\ last_actor = "none") =>
            ((event'.op = "ai_turn") = (enemy_pokemon.speed > player_pokemon.speed))]_vars

\* C10 witness: in a battle of equal speeds the player has made the first move.
C10_Witness ==
    /\ MoveExecuted(event)
    /\ event.op = "use_move"
    /\ player_pokemon.speed = enemy_pokemon.speed
    /\ player_pokemon.current_hp = player_pokemon.max_hp
    /\ enemy_pokemon.current_hp < enemy_pokemon.max_hp
    /\ battle_active

\* C11: a move executed against a combatant A that stands at current health 1
\* (as it does from the start of a battle begun with A at 1) ends the battle
\* exactly when it is a hit of a move with power > 0, and then A is at 0 and
\* is declared the loser; a miss or a zero-power move leaves A at 1 and the
\* battle active.
C11_OneHitEndsAtOneHealth ==
    [][(MoveExecuted(event')
          /\ (IF event'.op = "use_move" THEN enemy_pokemon ELSE player_pokemon).current_hp = 1) =>
         LET by_player == event'.op = "use_move"
             after == IF by_player THEN enemy_pokemon' ELSE player_pokemon'
         IN  IF event'.move.power > 0 /\ event'.roll_passed
             THEN /\ after.current_hp = 0
                  /\ ~battle_active'
                  /\ event'.box = (IF by_player THEN "Victory!" ELSE "Defeat!")
             ELSE /\ after.current_hp = 1
                  /\ battle_active'
                  /\ event'.box = "none"]_vars

\* C11 witness: the player stands at health 1 against an enemy at full health,
\* a damaging move of the enemy has just missed it, and the battle goes on.
C11_Witness ==
    /\ MoveExecuted(event)
    /\ event.op = "ai_turn"
    /\ event.move.power > 0
    /\ ~event.roll_passed
    /\ player_pokemon.current_hp = 1
    /\ enemy_pokemon.current_hp = enemy_pokemon.max_hp
    /\ battle_active

\* C12, as claimed: a use_move call made when no battle is active, or when it
\* is not the player's turn, or with a move that is not in the player's move
\* list, is rejected with an error outcome and changes neither combatant nor
\* the turn owner.
C12_InvalidCallRejected ==
    [][(event'.op = "use_move"
          /\ (\/ ~battle_active
              \/ ~player_turn
              \/ (event'.ran /\ event'.move \notin Range(player_pokemon.moves)))) =>
         /\ event'.log = "rejected"
         /\ player_pokemon' = player_pokemon
         /\ enemy_pokemon' = enemy_pokemon
         /\ player_turn' = player_turn]_vars

\* C13, as claimed: a Pokemon with max health <= 0 is never constructed, and no
\* damage resolution divides by a defense of 0 (no handler stops on
\* ZeroDivisionError).
C13_DegenerateRejected ==
    /\ player_pokemon # None => player_pokemon.max_hp > 0
    /\ enemy_pokemon # None => enemy_pokemon.max_hp > 0
    /\ event.log # "ZeroDivisionError"

\* C14: whenever both combatants are set, the moves ai_turn can select are
\* determined by the enemy's move list and the player's type alone: if the
\* enemy knows a move with power > 0 they are exactly its power > 0 moves whose
\* multiplier against the player's type is the maximum over its power > 0
\* moves, otherwise they are its whole move list; and the move an ai_turn has
\* just selected is one of them.
C14_AiChoiceSet ==
    BothPresent =>
        LET moves == Range(enemy_pokemon.moves)
            damaging == {m \in moves : m.power > 0}
            best == {m \in damaging :
                        \A n \in damaging :
                            get_multiplier(m.type, player_pokemon.type)
                                >= get_multiplier(n.type, player_pokemon.type)}
            selectable == IF damaging # {} THEN best ELSE moves
        IN  /\ ai_choices(enemy_pokemon.moves, player_pokemon.type) = selectable
            /\ (event.op = "ai_turn" /\ event.move # NoMove) => event.move \in selectable

\* C14 witness: an ai_turn has just executed a move it selected among several
\* tied for the best multiplier, while the enemy also knows a move with
\* power > 0 and a lower multiplier.
C14_Witness ==
    /\ BothPresent
    /\ event.op = "ai_turn"
    /\ event.ran
    /\ Cardinality(ai_choices(enemy_pokemon.moves, player_pokemon.type)) > 1
    /\ \E m \in Range(enemy_pokemon.moves) :
         /\ m.power > 0
         /\ m \notin ai_choices(enemy_pokemon.moves, player_pokemon.type)

\* C15, as claimed: a Fire attacker with attack 85 that hits a defender of
\* defense 70 with a Fire move of power 90, at variance 1.0 (the only value of
\* RandomFactors), deals 168 to a Grass defender and 42 to a Water defender.
C15_WorkedExampleAsClaimed ==
    [][(/\ event'.op = "use_move"
        /\ event'.ran
        /\ event'.roll_passed
        /\ event'.move.power = 90
        /\ event'.move.type = "Fire"
        /\ player_pokemon.type = "Fire"
        /\ player_pokemon.attack = 85
        /\ enemy_pokemon.defense = 70
        /\ enemy_pokemon.type \in {"Grass", "Water"}
        /\ enemy_pokemon.current_hp >= 168) =>
         enemy_pokemon'.current_hp =
             enemy_pokemon.current_hp - (IF enemy_pokemon.type = "Grass" THEN 168 ELSE 42)]_vars

\* C15, amended: the same hit deals 150 to a Grass defender and 37 to a Water
\* defender: base = (110 / 250) * (85 / 70) * 90 + 2 = 50.08..., and
\* int(base * 2.0 * 1.0 * 1.5) = 150, int(base * 0.5 * 1.0 * 1.5) = 37.
C15_WorkedExample ==
    [][(/\ event'.op = "use_move"
        /\ event'.ran
        /\ event'.roll_passed
        /\ event'.move.power = 90
        /\ event'.move.type = "Fire"
        /\ player_pokemon.type = "Fire"
        /\ player_pokemon.attack = 85
        /\ enemy_pokemon.defense = 70
        /\ enemy_pokemon.type \in {"Grass", "Water"}
        /\ enemy_pokemon.current_hp >= 168) =>
         enemy_pokemon'.current_hp =
             enemy_pokemon.current_hp - (IF enemy_pokemon.type = "Grass" THEN 150 ELSE 37)]_vars

\* C15 witness: the Fire attacker with attack 85 has just hit a Grass defender
\* of defense 70 at full health 200 with its Fire move of power 90, and the
\* defender stands at 50.
C15_Witness ==
    /\ BothPresent
    /\ event.op = "use_move"
    /\ event.ran
    /\ event.roll_passed
    /\ event.move.power = 90
    /\ event.move.type = "Fire"
    /\ player_pokemon.type = "Fire"
    /\ player_pokemon.attack = 85
    /\ enemy_pokemon.defense = 70
    /\ enemy_pokemon.type = "Grass"
    /\ enemy_pokemon.max_hp = 200
    /\ enemy_pokemon.current_hp = 50

\* C16: the chart has an entry for each of the 25 pairs of declared types, each
\* entry is 0.5, 1.0 or 2.0 (1, 2 or 4 halves), and in every state of a game
\* over the roster the lookups a move or an ai_turn would make (a type of a
\* move of one combatant against the type of the other) are pairs of declared
\* types, so none can miss.
C16_LookupTotal ==
    /\ \A a \in PokemonType :
         /\ a \in DOMAIN CHART
         /\ \A d \in PokemonType :
              /\ d \in DOMAIN CHART[a]
              /\ get_multiplier(a, d) \in {1, 2, 4}
    /\ BothPresent =>
         /\ \A m \in Range(player_pokemon.moves) \cup Range(move_commands) :
              /\ m.type \in DOMAIN CHART
              /\ enemy_pokemon.type \in DOMAIN CHART[m.type]
         /\ \A m \in Range(enemy_pokemon.moves) :
              /\ m.type \in DOMAIN CHART
              /\ player_pokemon.type \in DOMAIN CHART[m.type]

\* C16 witness: the Normal enemy has just taken damage from an Electric move of
\* the player, a lookup of the pair (Electric, Normal).
C16_Witness ==
    /\ MoveExecuted(event)
    /\ event.op = "use_move"
    /\ event.log = "takes damage"
    /\ event.move.type = "Electric"
    /\ enemy_pokemon.type = "Normal"
    /\ battle_active

====
